---- MODULE Spec2Model ----
(***************************************************************************)
(* Loss functions of the count autoencoder (autoencoder/loss.py):          *)
(* _nan2zero, _nelem, _reduce_mean, mse_loss, NB.loss and ZINB.loss.       *)
(*                                                                         *)
(* Tensors are finite sequences of float values.  A float value is a       *)
(* record [k, m, t]: k is "nan", "pinf", "ninf" or "fin"; a finite value   *)
(* is m/Unit + t*1e-10, so that the stabiliser eps = 1e-10 and the zero    *)
(* threshold 1e-8 are exact while ordinary magnitudes are fixed point.     *)
(* Arithmetic follows IEEE-754 for NaN and the infinities; a finite        *)
(* result beyond FMax overflows to an infinity.                            *)
(***************************************************************************)
EXTENDS Integers, Sequences, FiniteSets

VARIABLES
    self,      \* the loss object: [cls, theta, pi, scale_factor, masking, debug]
    pc,        \* "ready", "done" (a value was returned) or "halted" (assertion)
    fn,        \* the function that was evaluated
    x,         \* argument of _reduce_mean
    y_true,    \* arguments of the loss
    y_pred,
    reduce,
    tensors,   \* the intermediate tensors of the evaluation, by name
    ret,       \* the returned tensor (a scalar is a tensor of one element)
    msg        \* message of the failed assertion, "" when none failed

vars == <<self, pc, fn, x, y_true, y_pred, reduce, tensors, ret, msg>>

\* ----------------------------------------------------------------------
\* Bounds of the model
\* ----------------------------------------------------------------------
\* longest tensor handed to a loss
MaxLen == 2
\* longest tensor handed to _reduce_mean on its own
MaxLenX == 3
\* longest tensor handed to mse_loss
MaxLenMse == 4
\* largest finite magnitude, in 1/Unit
FMax == 1000000

\* ----------------------------------------------------------------------
\* float32 values
\* ----------------------------------------------------------------------
Unit == 1000

NaN == [k |-> "nan", m |-> 0, t |-> 0]
PInf == [k |-> "pinf", m |-> 0, t |-> 0]
NInf == [k |-> "ninf", m |-> 0, t |-> 0]
Fin(m, t) == [k |-> "fin", m |-> m, t |-> t]
\* the integer n as a float
Num(n) == Fin(n * Unit, 0)
\* n * 1e-10
Tiny(n) == Fin(0, n)
Zero == Fin(0, 0)
One == Num(1)

AbsI(a) == IF a < 0 THEN -a ELSE a
\* a / b rounded to the nearest integer, b > 0
RoundDiv(a, b) == (2 * a + b) \div (2 * b)

\* The operators on floats bind each argument once, as a call evaluates its
\* arguments once: Op(a0) == CHOOSE r \in {body(a) : a \in {a0}} : TRUE.

\* a finite result m/Unit + t*1e-10, carried and checked for overflow
Norm(m0, t0) ==
    CHOOSE r \in {
        LET c == IF AbsI(t) >= 10000000 THEN t \div 10000000 ELSE 0
            mm == m + c
            tt == t - c * 10000000
        IN IF mm > FMax THEN PInf
           ELSE IF mm < -FMax THEN NInf
           ELSE Fin(mm, tt) : m \in {m0}, t \in {t0}} : TRUE

is_nan(a) == a.k = "nan"
is_inf(a) == a.k \in {"pinf", "ninf"}
is_finite(a) == a.k = "fin"

\* -1, 0 or 1; NaN has sign 0
Sign(a) ==
    CASE a.k = "pinf" -> 1
      [] a.k = "ninf" -> -1
      [] a.k = "nan" -> 0
      [] OTHER -> IF a.m > 0 THEN 1
                  ELSE IF a.m < 0 THEN -1
                  ELSE IF a.t > 0 THEN 1
                  ELSE IF a.t < 0 THEN -1 ELSE 0

InfOf(s) == IF s > 0 THEN PInf ELSE NInf

Neg(a0) ==
    CHOOSE r \in {
        CASE a.k = "nan" -> NaN
          [] a.k = "pinf" -> NInf
          [] a.k = "ninf" -> PInf
          [] OTHER -> Fin(-a.m, -a.t) : a \in {a0}} : TRUE

Add(a0, b0) ==
    CHOOSE r \in {
        IF is_nan(a) \/ is_nan(b) THEN NaN
        ELSE IF is_inf(a) /\ is_inf(b) THEN (IF a.k = b.k THEN a ELSE NaN)
        ELSE IF is_inf(a) THEN a
        ELSE IF is_inf(b) THEN b
        ELSE Norm(a.m + b.m, a.t + b.t) : a \in {a0}, b \in {b0}} : TRUE

Sub(a, b) == Add(a, Neg(b))

Mul(a0, b0) ==
    CHOOSE r \in {
        IF is_nan(a) \/ is_nan(b) THEN NaN
        ELSE IF is_inf(a) \/ is_inf(b)
             THEN (IF Sign(a) = 0 \/ Sign(b) = 0 THEN NaN
                   ELSE InfOf(Sign(a) * Sign(b)))
        ELSE IF b.m # 0 /\ AbsI(a.m) > (FMax * Unit) \div AbsI(b.m)
             THEN InfOf(Sign(a) * Sign(b))
        ELSE Norm(RoundDiv(a.m * b.m, Unit),
                  RoundDiv(a.m * b.t + b.m * a.t, Unit))
        : a \in {a0}, b \in {b0}} : TRUE

Div(a0, b0) ==
    CHOOSE r \in {
        IF is_nan(a) \/ is_nan(b) THEN NaN
        ELSE IF is_inf(a)
             THEN (IF is_inf(b) THEN NaN
                   ELSE InfOf(Sign(a) * (IF Sign(b) < 0 THEN -1 ELSE 1)))
        ELSE IF is_inf(b) THEN Zero
        ELSE IF Sign(b) = 0 THEN (IF Sign(a) = 0 THEN NaN ELSE InfOf(Sign(a)))
        ELSE IF b.m # 0
             THEN Norm(Sign(b) * RoundDiv(a.m * Unit, AbsI(b.m)),
                       Sign(b) * RoundDiv(a.t * Unit, AbsI(b.m)))
        ELSE IF a.m # 0 THEN InfOf(Sign(a) * Sign(b))
        ELSE Norm(Sign(b) * RoundDiv(a.t * Unit, AbsI(b.t)), 0)
        : a \in {a0}, b \in {b0}} : TRUE

\* a < b; false when either is NaN
Less(a0, b0) ==
    \E a \in {a0}, b \in {b0} :
        IF is_nan(a) \/ is_nan(b) THEN FALSE
        ELSE IF a.k = "pinf" \/ b.k = "ninf" THEN FALSE
        ELSE IF a.k = "ninf" \/ b.k = "pinf" THEN TRUE
        ELSE a.m < b.m \/ (a.m = b.m /\ a.t < b.t)

Square(a0) == CHOOSE r \in {Mul(a, a) : a \in {a0}} : TRUE

\* ----------------------------------------------------------------------
\* tf.log, tf.lgamma, tf.pow on the fixed-point floats
\* ----------------------------------------------------------------------
RECURSIVE Log2Floor(_)
Log2Floor(n) == IF n < 2 THEN 0 ELSE 1 + Log2Floor(n \div 2)

\* 10^4 * 2 * atanh(z / 10^4), by its series
Atanh4(z0) ==
    CHOOSE r \in {
        LET z2 == (z * z) \div 10000
            z3 == (z * z2) \div 10000
            z5 == (z3 * z2) \div 10000
            z7 == (z5 * z2) \div 10000
        IN 2 * (z + z3 \div 3 + z5 \div 5 + z7 \div 7)
        : z \in {z0}} : TRUE

\* 10^4 * ln(n) for an integer n >= 1:
\* ln(n) = k*ln(2) + 2*atanh(z), z = (n - 2^k)/(n + 2^k)
RECURSIVE LnNat4(_)
LnNat4(n0) ==
    CHOOSE r \in {
        IF n >= 131072 THEN LnNat4(n \div 2) + 6931
        ELSE RoundDiv(k * 693147, 100)
               + Atanh4(RoundDiv((n - 2 ^ k) * 10000, n + 2 ^ k))
        : n \in {n0}, k \in {Log2Floor(n0)}} : TRUE

\* 10^4 * ln(m/Unit), m >= 1
Ln4(m) == LnNat4(m) - LnNat4(Unit)

\* 10^4 * ln(t * 1e-10), t >= 1
LnTiny4(t) == LnNat4(t) - 230259

log(a0) ==
    CHOOSE r \in {
        CASE a.k = "nan" -> NaN
          [] a.k = "pinf" -> PInf
          [] a.k = "ninf" -> NaN
          [] OTHER -> IF Sign(a) < 0 THEN NaN
                      ELSE IF Sign(a) = 0 THEN NInf
                      ELSE IF a.m > 0 THEN Norm(RoundDiv(Ln4(a.m), 10), 0)
                      ELSE Norm(RoundDiv(LnTiny4(a.t), 10), 0)
        : a \in {a0}} : TRUE

\* Unit * exp(v/Unit) for -6908 <= v <= 13815
ExpM(v0) ==
    CHOOSE q \in {
        LET k == (v * 1000) \div 693147
            r == v * 10 - RoundDiv(k * 693147, 100)
            T2 == (r * r) \div 20000
            T3 == (T2 * r) \div 30000
            T4 == (T3 * r) \div 40000
            T5 == (T4 * r) \div 50000
            T6 == (T5 * r) \div 60000
            T7 == (T6 * r) \div 70000
            e4 == 10000 + r + T2 + T3 + T4 + T5 + T6 + T7
        IN IF k < 0 THEN RoundDiv(e4, 10 * (2 ^ (-k)))
           ELSE IF k <= 10 THEN RoundDiv(e4 * (2 ^ k), 10)
           ELSE RoundDiv(e4 * 1024, 10) * (2 ^ (k - 10))
        : v \in {v0}} : TRUE

exp(a0) ==
    CHOOSE r \in {
        CASE a.k = "nan" -> NaN
          [] a.k = "pinf" -> PInf
          [] a.k = "ninf" -> Zero
          [] OTHER -> IF a.m > 13815 THEN PInf
                      ELSE IF a.m >= -6908 THEN Norm(ExpM(a.m), 0)
                      ELSE IF a.m >= -23026 THEN Norm(0, ExpM(a.m + 16118))
                      ELSE Zero
        : a \in {a0}} : TRUE

\* 10^4 * ln|Gamma(m/Unit)| where m/Unit is not a pole
RECURSIVE LG4(_)
LG4(m0) ==
    CHOOSE r \in {
        IF m = Unit \/ m = 2 * Unit THEN 0
        ELSE IF m >= 7 * Unit /\ (m % Unit # 0 \/ m > 20 * Unit)
             THEN (IF m > 20 * Unit
                   THEN RoundDiv(RoundDiv(m - 500, 100) * Ln4(m), 10)
                   ELSE RoundDiv((m - 500) * Ln4(m), 1000))
                  - 10 * m + 9189 + RoundDiv(10000000, 12 * m)
        ELSE IF m % Unit = 0 /\ m > 2 * Unit
             THEN LG4(m - Unit) + Ln4(m - Unit)
        ELSE LG4(m + Unit) - Ln4(AbsI(m))
        : m \in {m0}} : TRUE

\* 10^4 * ln(n!) for n >= 0
RECURSIVE LnFact4(_)
LnFact4(n) == IF n <= 1 THEN 0 ELSE LnFact4(n - 1) + LnNat4(n)

lgamma(a0) ==
    CHOOSE r \in {
        CASE a.k = "nan" -> NaN
          [] a.k = "pinf" -> PInf
          [] a.k = "ninf" -> PInf
          [] OTHER -> IF a.m <= 0 /\ a.m % Unit = 0
                      THEN (IF a.t = 0 THEN PInf
                            ELSE Norm(RoundDiv(- LnTiny4(AbsI(a.t))
                                               - LnFact4((-a.m) \div Unit), 10), 0))
                      ELSE Norm(RoundDiv(LG4(a.m), 10), 0)
        : a \in {a0}} : TRUE

IsInteger(a) == a.k = "fin" /\ a.m % Unit = 0 /\ a.t = 0
Abs(a0) == CHOOSE r \in {IF Sign(a) < 0 THEN Neg(a) ELSE a : a \in {a0}} : TRUE

pow(b0, e0) ==
    CHOOSE r \in {
        IF (is_finite(e) /\ Sign(e) = 0) \/ b = One THEN One
        ELSE IF is_nan(b) \/ is_nan(e) THEN NaN
        ELSE IF Sign(b) >= 0 THEN exp(Mul(e, log(b)))
        ELSE IF IsInteger(e)
             THEN (IF (e.m \div Unit) % 2 = 1
                   THEN Neg(exp(Mul(e, log(Abs(b)))))
                   ELSE exp(Mul(e, log(Abs(b)))))
        ELSE IF is_inf(e) THEN exp(Mul(e, log(Abs(b))))
        ELSE NaN
        : b \in {b0}, e \in {e0}} : TRUE

\* ----------------------------------------------------------------------
\* tensors
\* ----------------------------------------------------------------------
RECURSIVE reduce_sum(_)
reduce_sum(xs0) ==
    CHOOSE r \in {
        IF Len(xs) = 0 THEN Zero
        ELSE Add(reduce_sum(SubSeq(xs, 1, Len(xs) - 1)), xs[Len(xs)])
        : xs \in {xs0}} : TRUE

\* tf.reduce_mean: the plain arithmetic mean
reduce_mean(xs) == Div(reduce_sum(xs), Num(Len(xs)))

\* the tensor of an elementwise operation, its elements computed once
Tensor(f) == f \o <<>>

all_finite(xs) == \A i \in DOMAIN xs : is_finite(xs[i])

\* ----------------------------------------------------------------------
\* numeric stabilisers
\* ----------------------------------------------------------------------
_nan2zero(xs) ==
    Tensor([i \in DOMAIN xs |-> IF is_nan(xs[i]) THEN Zero ELSE xs[i]])

\* mutant: every element is counted, the NaN ones too
_nelem_counts_all(xs) == Num(Len(xs))

\* mutant: no fallback to 1 when nothing is counted
_nelem_no_fallback(xs) ==
    reduce_sum(Tensor([i \in DOMAIN xs |->
                          IF ~ is_nan(xs[i]) THEN One ELSE Zero]))

_nelem(xs) ==
    LET nelem == reduce_sum(Tensor([i \in DOMAIN xs |->
                                IF ~ is_nan(xs[i]) THEN One ELSE Zero]))
    IN IF nelem = Zero THEN One ELSE nelem

_reduce_mean(xs) ==
    LET nelem == _nelem(xs)
        xz == _nan2zero(xs)
    IN Div(reduce_sum(xz), nelem)

\* mutant: the plain mean in place of the masked mean
mse_loss_plain_mean(yt, yp) ==
    reduce_mean(Tensor([i \in DOMAIN yt |-> Square(Sub(yp[i], yt[i]))]))

mse_loss(yt, yp) ==
    LET r == Tensor([i \in DOMAIN yt |-> Square(Sub(yp[i], yt[i]))])
    IN _reduce_mean(r)

\* ----------------------------------------------------------------------
\* NB.loss
\* ----------------------------------------------------------------------
\* tf.verify_tensor_all_finite(t, m): the messages with which it fails
verify_tensor_all_finite(t, m) == IF all_finite(t) THEN {} ELSE {m}

\* the assertions that fail on the tensors T of one evaluation
assert_ops(T) ==
    verify_tensor_all_finite(T.y_pred, "y_pred has inf/nans")
      \cup verify_tensor_all_finite(T.t1, "t1 has inf/nans")
      \cup verify_tensor_all_finite(T.t2, "t2 has inf/nans")
      \cup verify_tensor_all_finite(T.t3, "t3 has inf/nans")
      \cup verify_tensor_all_finite(T.t4, "t4 has inf/nans")
      \cup verify_tensor_all_finite(T.t5, "t5 has inf/nans")
      \cup verify_tensor_all_finite(T.t6, "t6 has inf/nans")

\* mutant: final is computed outside the control dependencies
NB_no_control_dependencies(obj, T) == {}

\* mutant: final depends on the assertions whatever debug is
NB_always_control_dependencies(obj, T) == assert_ops(T)

\* the assertions `final` is made to depend on
NB_control_dependencies(obj, T) == IF obj.debug THEN assert_ops(T) ELSE {}

\* y_true as the terms see it
NB_mask(obj, yt) == IF obj.masking THEN _nan2zero(yt) ELSE yt

\* mutant: with masking the sum is not divided
NB_reduce_sum_only(obj, final, nelem) ==
    IF obj.masking THEN reduce_sum(final) ELSE reduce_mean(final)

\* the reduction of the elementwise sum
NB_reduce(obj, final, nelem) ==
    IF obj.masking THEN Div(reduce_sum(final), nelem)
    ELSE reduce_mean(final)

\* [failed: the failing assertions, tensors, ret: the value returned if none failed]
NB_loss(obj, yt, yp, red) ==
    LET scale == obj.scale_factor
        eps == obj.eps
        ypS == Tensor([i \in DOMAIN yp |-> Mul(yp[i], scale)])
        nelem == _nelem(yt)
        ytM == NB_mask(obj, yt)
        th == obj.theta
        t1 == Tensor([i \in DOMAIN ytM |->
                        Neg(lgamma(Add(Add(ytM[i], th), eps)))])
        t2 == <<lgamma(Add(th, eps))>>
        t3 == Tensor([i \in DOMAIN ytM |-> lgamma(Add(ytM[i], One))])
        t4 == <<Neg(Mul(th, log(Add(th, eps))))>>
        t5 == Tensor([i \in DOMAIN ytM |->
                        Neg(Mul(ytM[i], log(Add(ypS[i], eps))))])
        t6 == Tensor([i \in DOMAIN ytM |->
                        Mul(Add(th, ytM[i]), log(Add(Add(th, ypS[i]), eps)))])
        final == Tensor([i \in DOMAIN ytM |->
                           Add(Add(Add(Add(Add(t1[i], t2[1]), t3[i]), t4[1]),
                                   t5[i]), t6[i])])
        T == [theta |-> <<th>>, y_pred |-> ypS, t1 |-> t1, t2 |-> t2, t3 |-> t3,
              t4 |-> t4, t5 |-> t5, t6 |-> t6, final |-> final]
    IN [failed |-> NB_control_dependencies(obj, T),
        tensors |-> T,
        ret |-> IF red THEN <<NB_reduce(obj, final, nelem)>> ELSE final]

\* ----------------------------------------------------------------------
\* ZINB.loss
\* ----------------------------------------------------------------------
\* the dispersion of the zero branch
ZINB_theta(obj) == Div(One, Add(obj.theta, obj.eps))

\* mutant: the zero test is equality with zero
ZINB_where_equal_zero(yt, zero_case, nb_case) ==
    Tensor([i \in DOMAIN yt |->
              IF yt[i] = Zero THEN zero_case[i] ELSE nb_case[i]])

\* tf.where(tf.less(y_true, 1e-8), zero_case, nb_case)
ZINB_where(yt, zero_case, nb_case) ==
    Tensor([i \in DOMAIN yt |->
              IF Less(yt[i], Tiny(100)) THEN zero_case[i] ELSE nb_case[i]])

ZINB_reduce(obj, result) ==
    IF obj.masking THEN _reduce_mean(result) ELSE reduce_mean(result)

ZINB_loss(obj, yt, yp) ==
    LET scale == obj.scale_factor
        eps == obj.eps
        nb == NB_loss(obj, yt, yp, FALSE)
        lw == log(Add(Sub(One, obj.pi), eps))
        nb_case == Tensor([i \in DOMAIN yt |-> Sub(nb.ret[i], lw)])
        ypS == Tensor([i \in DOMAIN yp |-> Mul(yp[i], scale)])
        th == ZINB_theta(obj)
        zero_nb == Tensor([i \in DOMAIN yt |->
                             pow(Div(th, Add(Add(th, ypS[i]), eps)), th)])
        zero_case == Tensor([i \in DOMAIN yt |->
                      Neg(log(Add(Add(obj.pi, Mul(Sub(One, obj.pi), zero_nb[i])),
                                  eps)))])
        result == ZINB_where(yt, zero_case, nb_case)
    IN [failed |-> nb.failed,
        tensors |-> [nb |-> nb.tensors, theta |-> <<th>>, nb_case |-> nb_case,
                     zero_nb |-> zero_nb, zero_case |-> zero_case,
                     result |-> result],
        ret |-> <<ZINB_reduce(obj, result)>>]

\* ----------------------------------------------------------------------
\* the objects and the arguments
\* ----------------------------------------------------------------------
Bools == {TRUE, FALSE}
\* (theta, scale_factor) of the NB objects
Params == {<<Num(1), Num(1)>>, <<Num(3), Num(2)>>}
\* (pi, theta, scale_factor) of the ZINB objects: pi is 0, 0.3 or 2, a value
\* outside [0, 1] (pi is not validated)
ZParams == {<<Zero, Num(3), Num(2)>>, <<Fin(300, 0), Num(1), Num(1)>>,
            <<Fin(300, 0), Num(3), Num(2)>>, <<Num(2), Num(3), Num(1)>>}
\* the predictions: two counts and an overflowed one
YPredVals == {Num(1), Num(4), PInf}
\* (y_true, y_pred) at one position of a loss: NaN marks a missing
\* observation; 5e-9 and 1e-8 lie around the zero threshold
LossPairs == {<<NaN, Num(1)>>, <<NaN, Num(4)>>,
              <<Zero, Num(1)>>, <<Zero, Num(4)>>, <<Zero, PInf>>,
              <<Tiny(50), Num(1)>>, <<Tiny(50), PInf>>,
              <<Tiny(100), Num(1)>>, <<Tiny(100), PInf>>,
              <<Num(4), Num(1)>>, <<Num(4), Num(4)>>, <<Num(4), PInf>>}
XVals == {NaN, PInf, NInf, Num(-1), Zero, Num(2), Fin(600000, 0)}
\* (y_true, y_pred) at one position of mse_loss
MsePairs == {<<Num(2), Num(2)>>, <<Num(3), Num(3)>>, <<NaN, Num(1)>>,
             <<Num(5), Num(5)>>, <<Num(2), Num(5)>>, <<NaN, Num(3)>>,
             <<Num(3), Num(1)>>, <<Num(2), NaN>>}

\* NB.__init__ and ZINB.__init__
NB_init(th, mask, scale, dbg) ==
    [cls |-> "NB", eps |-> Tiny(1), scale_factor |-> scale, debug |-> dbg,
     masking |-> mask, theta |-> th, pi |-> Zero]

ZINB_init(p, th, mask, scale, dbg) ==
    [NB_init(th, mask, scale, dbg) EXCEPT !.cls = "ZINB", !.pi = p]

Objects ==
    {NB_init(ps[1], mask, ps[2], dbg) :
        ps \in Params, mask \in Bools, dbg \in Bools}
    \cup
    {ZINB_init(ps[1], ps[2], mask, ps[3], dbg) :
        ps \in ZParams, mask \in Bools, dbg \in Bools}

Tensors(vals, maxlen) == UNION {[1..n -> vals] : n \in 1..maxlen}

NoTensors == [theta |-> <<>>]

\* the state an evaluation leaves: the value, or the halt of a failed assertion
Returns(r) ==
    /\ tensors' = r.tensors
    /\ IF r.failed = {}
       THEN pc' = "done" /\ ret' = r.ret /\ msg' = ""
       ELSE pc' = "halted" /\ ret' = <<>> /\ msg' \in r.failed

\* ----------------------------------------------------------------------
\* the loss objects: one evaluation of NB.loss or ZINB.loss
\* ----------------------------------------------------------------------
Init ==
    /\ self \in Objects
    /\ pc = "ready"
    /\ fn = ""
    /\ x = <<>>
    /\ y_true = <<>>
    /\ y_pred = <<>>
    /\ reduce = TRUE
    /\ tensors = NoTensors
    /\ ret = <<>>
    /\ msg = ""

Call_NB_loss ==
    /\ pc = "ready"
    /\ self.cls = "NB"
    /\ \E n \in 1..MaxLen :
         \E ps \in [1..n -> LossPairs], red \in Bools :
            LET yt == Tensor([i \in 1..n |-> ps[i][1]])
                yp == Tensor([i \in 1..n |-> ps[i][2]])
            IN /\ fn' = "NB.loss"
               /\ y_true' = yt
               /\ y_pred' = yp
               /\ reduce' = red
               /\ Returns(NB_loss(self, yt, yp, red))
    /\ UNCHANGED <<self, x>>

Call_ZINB_loss ==
    /\ pc = "ready"
    /\ self.cls = "ZINB"
    /\ \E n \in 1..MaxLen :
         \E ps \in [1..n -> LossPairs] :
            LET yt == Tensor([i \in 1..n |-> ps[i][1]])
                yp == Tensor([i \in 1..n |-> ps[i][2]])
            IN /\ fn' = "ZINB.loss"
               /\ y_true' = yt
               /\ y_pred' = yp
               /\ Returns(ZINB_loss(self, yt, yp))
    /\ UNCHANGED <<self, x, reduce>>

Next == Call_NB_loss \/ Call_ZINB_loss

Spec == Init /\ [][Next]_vars

\* ----------------------------------------------------------------------
\* the module functions: one evaluation of _reduce_mean or mse_loss
\* ----------------------------------------------------------------------
InitMean ==
    /\ self = NB_init(Num(1), FALSE, Num(1), FALSE)
    /\ pc = "ready"
    /\ fn = ""
    /\ x = <<>>
    /\ y_true = <<>>
    /\ y_pred = <<>>
    /\ reduce = TRUE
    /\ tensors = NoTensors
    /\ ret = <<>>
    /\ msg = ""

Call_reduce_mean ==
    /\ pc = "ready"
    /\ \E xs \in Tensors(XVals, MaxLenX) :
            /\ x' = xs
            /\ ret' = <<_reduce_mean(xs)>>
    /\ fn' = "_reduce_mean"
    /\ pc' = "done"
    /\ UNCHANGED <<self, y_true, y_pred, reduce, tensors, msg>>

Call_mse_loss ==
    /\ pc = "ready"
    /\ \E n \in 1..MaxLenMse :
         \E ps \in [1..n -> MsePairs] :
            LET yt == Tensor([i \in 1..n |-> ps[i][1]])
                yp == Tensor([i \in 1..n |-> ps[i][2]])
            IN /\ y_true' = yt
               /\ y_pred' = yp
               /\ ret' = <<mse_loss(yt, yp)>>
    /\ fn' = "mse_loss"
    /\ pc' = "done"
    /\ UNCHANGED <<self, x, reduce, tensors, msg>>

NextMean == Call_reduce_mean \/ Call_mse_loss

SpecMean == InitMean /\ [][NextMean]_vars

\* ----------------------------------------------------------------------
\* what the claims speak of
\* ----------------------------------------------------------------------
NotNaN(v) == ~ is_nan(v)

\* the positions of yt that are not NaN-marked
PresentAt(yt) == {i \in DOMAIN yt : ~ is_nan(yt[i])}

\* the entries of xs at the positions where yt is not NaN, in order
RECURSIVE Keep(_, _)
Keep(xs, yt) ==
    IF Len(xs) = 0 THEN <<>>
    ELSE IF is_nan(yt[Len(xs)])
         THEN Keep(SubSeq(xs, 1, Len(xs) - 1), SubSeq(yt, 1, Len(xs) - 1))
    ELSE Append(Keep(SubSeq(xs, 1, Len(xs) - 1), SubSeq(yt, 1, Len(xs) - 1)),
                xs[Len(xs)])

\* the sum of a tensor, left to right
RECURSIVE SumOf(_)
SumOf(xs) ==
    IF Len(xs) = 0 THEN Zero
    ELSE Add(SumOf(SubSeq(xs, 1, Len(xs) - 1)), xs[Len(xs)])

\* the mean of xs over the positions where yt is not NaN (divisor 1 when none)
MeanOver(xs, yt) ==
    LET n == Cardinality(PresentAt(yt))
    IN Div(SumOf(Keep(xs, yt)), Num(IF n = 0 THEN 1 ELSE n))

Returned == pc = "done"

\* the tensors of the NB terms of the evaluation
NBT == IF fn = "ZINB.loss" THEN tensors.nb ELSE tensors

TermNames == {"y_pred", "t1", "t2", "t3", "t4", "t5", "t6"}

\* the asserted tensors that hold a non-finite element
NonFiniteTerms == {nm \in TermNames : ~ all_finite(NBT[nm])}

\* some asserted tensor is non-finite at position i (t2, t4 are scalars)
NonFiniteAt(i) ==
    \E nm \in TermNames :
        ~ is_finite(NBT[nm][IF Len(NBT[nm]) = 1 THEN 1 ELSE i])

FinitePred == \A i \in DOMAIN y_pred : is_finite(y_pred[i])

ValidPi == ~ Less(self.pi, Zero) /\ ~ Less(One, self.pi) /\ is_finite(self.pi)

\* ---------------------------------------------------------------- C3
\* C3: _reduce_mean(x) is the sum of the non-NaN entries of x divided by
\* their number, the divisor being 1 when there are none; without NaN it is
\* the arithmetic mean of x, and when every entry is NaN it is 0.
C3_MaskedMean ==
    (fn = "_reduce_mean" /\ Returned) =>
        /\ ret[1] = MeanOver(x, x)
        /\ (PresentAt(x) = DOMAIN x => ret[1] = reduce_mean(x))
        /\ (PresentAt(x) = {} => ret[1] = Zero)

C3_Witness ==
    /\ fn = "_reduce_mean" /\ Returned
    /\ x = <<NaN, Num(2), Num(-1), NaN>> \/ x = <<NaN, Num(2), Num(-1)>>
    /\ ret[1] = Fin(500, 0)

\* ---------------------------------------------------------------- C4
\* C4 as claimed: the output of _reduce_mean is finite whatever the entries.
C4_AlwaysFinite ==
    (fn = "_reduce_mean" /\ Returned) => is_finite(ret[1])

\* C4 amended: _reduce_mean is finite when every entry is finite or NaN and
\* the sum of the non-NaN entries does not overflow; an infinite entry makes
\* it infinite or NaN.
C4_FiniteOnFiniteEntries ==
    (fn = "_reduce_mean" /\ Returned) =>
        /\ ((\A i \in DOMAIN x : is_finite(x[i]) \/ is_nan(x[i]))
              /\ is_finite(SumOf(Keep(x, x)))
            => is_finite(ret[1]))
        /\ ((\E i \in DOMAIN x : is_inf(x[i])) => ~ is_finite(ret[1]))

C4_Witness ==
    /\ fn = "_reduce_mean" /\ Returned
    /\ Len(x) >= 2
    /\ \A i \in DOMAIN x : is_nan(x[i])
    /\ is_finite(ret[1])

C1_MaskedNBMean ==
    (fn = "NB.loss" /\ Returned /\ self.masking /\ reduce /\ FinitePred) =>
        /\ ret[1] = MeanOver(tensors.final, y_true)
        /\ \A yp \in [DOMAIN y_pred -> YPredVals] :
              (\A i \in PresentAt(y_true) : yp[i] = y_pred[i])
              => NB_loss(self, y_true, yp, TRUE).ret = ret

\* ---------------------------------------------------------------- C2
\* C2: with masking, ZINB.loss is the mean of the selected per-element value
\* over the positions where y_true is not NaN: the loss of a batch with NaN
\* entries is the loss of the batch with those positions removed.
C2_MaskedZINBMean ==
    (fn = "ZINB.loss" /\ Returned /\ self.masking /\ FinitePred /\ ValidPi
       /\ PresentAt(y_true) # {}) =>
        /\ ret[1] = MeanOver(tensors.result, y_true)
        /\ ret = ZINB_loss(self, Keep(y_true, y_true), Keep(y_pred, y_true)).ret

C6_DebugHaltsOnNonFinite ==
    (self.debug /\ Returned /\ fn = "ZINB.loss") =>
        /\ NonFiniteTerms = {}
        /\ all_finite(tensors.nb_case)
        /\ all_finite(tensors.zero_nb)
        /\ all_finite(tensors.zero_case)
        /\ all_finite(tensors.result)

\* C6 amended: with debug, an evaluation of NB.loss or ZINB.loss halts, with
\* the message of a non-finite tensor, exactly when the scaled y_pred or one
\* of t1..t6 is non-finite; what ZINB.loss computes itself is not asserted.
C6_DebugHaltsOnNBTerms ==
    (self.debug /\ pc # "ready") =>
        /\ (pc = "halted") = (NonFiniteTerms # {})
        /\ pc = "halted" =>
              \E nm \in NonFiniteTerms : msg = nm \o " has inf/nans"
        /\ pc = "done" => msg = ""

C6_Witness ==
    /\ self.debug /\ pc = "halted" /\ fn = "ZINB.loss"
    /\ msg = "t5 has inf/nans"
    /\ all_finite(NBT.y_pred)
    /\ ret = <<>>

\* ---------------------------------------------------------------- C7
\* C7 as claimed (already without masking): without debug every evaluation
\* returns, and a non-finite y_pred or term t1..t6 makes the result
\* non-finite.
C7_NonFinitePropagates ==
    (~ self.debug /\ ~ self.masking /\ pc # "ready") =>
        /\ pc = "done"
        /\ NonFiniteTerms # {} => \E i \in DOMAIN ret : ~ is_finite(ret[i])

\* C7 amended: without debug every evaluation returns, no assertion failing;
\* in NB.loss a non-finite y_pred or term makes the result non-finite (at
\* that position when unreduced); in ZINB.loss without masking it does so
\* when the position is routed to nb_case.
C7_NoHaltWithoutDebug ==
    (~ self.debug /\ pc # "ready") =>
        /\ pc = "done" /\ msg = ""
        /\ fn = "NB.loss" =>
              \A i \in DOMAIN y_true :
                 NonFiniteAt(i) => ~ is_finite(ret[IF reduce THEN 1 ELSE i])
        /\ (fn = "ZINB.loss" /\ ~ self.masking) =>
              \A i \in DOMAIN y_true :
                 (NonFiniteAt(i) /\ ~ Less(y_true[i], Tiny(100)))
                 => ~ is_finite(ret[1])

C7_Witness ==
    /\ ~ self.debug /\ pc = "done" /\ fn = "NB.loss" /\ reduce
    /\ "t5" \in NonFiniteTerms
    /\ \E i \in DOMAIN y_true : is_finite(NBT.t5[i])
    /\ ~ is_finite(ret[1])

\* ---------------------------------------------------------------- C8
\* the evaluation just made, by the object with the other masking
OtherMasking ==
    LET other == [self EXCEPT !.masking = ~ self.masking]
    IN IF fn = "NB.loss" THEN NB_loss(other, y_true, y_pred, reduce)
       ELSE ZINB_loss(other, y_true, y_pred)

C10_SameDispersion ==
    (fn = "ZINB.loss" /\ Returned /\ FinitePred) =>
        /\ tensors.theta = tensors.nb.theta
        /\ self.pi = Zero =>
              \A i \in DOMAIN y_true :
                 y_true[i] = Zero =>
                    LET d == Sub(tensors.zero_case[i], tensors.nb.final[i])
                    IN is_finite(d) /\ d.m \in -2..2

====
